---- MODULE Spec2Model ----
(***************************************************************************)
(* Cell simulation on a toroidal grid (redvelvet-coder/Cell-Simulation).   *)
(* The state is one Simulation object (src/simulation.py) driven by        *)
(* main() (src/cel_sim.py): construction, the run() loop and the five      *)
(* phases of _simulate_tick().  Patch and Cell (module `model`) are        *)
(* modelled from their use in simulation.py and from the specification.    *)
(***************************************************************************)
EXTENDS Integers, Sequences, FiniteSets, TLC

(* ------------------------------ bounds -------------------------------- *)
\* Largest age_limit, division_limit, division_cooldown and time_limit of the
\* configurations explored (see the families of configurations below).
MaxAgeLimit == 3
MaxDivisionLimit == 2
MaxCooldown == 2
MaxTimeLimit == 3
\* Probabilities are multiples of 1/ProbScale; random.random() yields
\* 0/ProbScale .. (ProbScale-1)/ProbScale, i.e. a value of [0, 1).
ProbScale == 2

(* ------------------------- program constants -------------------------- *)
MinGridRows == 3
MinGridCols == 3
MinPopulation == 1
MinAgeLimit == 1
MinDivisionLimit == 1
MinCooldown == 1
MinTimeLimit == 1

VARIABLES
    config,                    \* Simulation.config
    pc,                        \* position of the program
    error,                     \* message of the ValueError of validate()
    grid,                      \* Simulation.grid: position -> <<>> or <<cell>>
    current_tick,
    total_cells_created,
    total_deaths,
    deaths_by_age,
    deaths_by_division_limit,
    deaths_by_overcrowding,
    cells_to_die,              \* local of _simulate_tick: patch -> set of causes
    births,                    \* local of _simulate_tick: target patches, in order
    visit,                     \* index of the row-major loops of phase 3
    committed_dead,            \* history: number of cells that die() removed
    ledger,                    \* history: position -> the tick its cell was
                               \* created in and the tick it last divided in
    twin                       \* a second Simulation, built from the same
                               \* configuration and fed the same random draws

vars == <<config, pc, error, grid, current_tick, total_cells_created,
          total_deaths, deaths_by_age, deaths_by_division_limit,
          deaths_by_overcrowding, cells_to_die, births, visit, committed_dead,
          ledger, twin>>

(* --------------------------- configuration ---------------------------- *)
NoError == "none"

\* validate() as it would be if the check of division_cooldown were missing
ValidateWithoutCooldown(c) ==
    IF c.grid_rows < MinGridRows THEN "Grid rows must be at least 3."
    ELSE IF c.grid_cols < MinGridCols THEN "Grid columns must be at least 3."
    ELSE IF c.initial_population < MinPopulation
        THEN "Initial population must be at least 1."
    ELSE IF c.initial_population > c.grid_rows * c.grid_cols
        THEN "Initial population cannot exceed total number of patches"
    ELSE IF c.age_limit < MinAgeLimit THEN "Age limit must be at least 1."
    ELSE IF c.division_limit < MinDivisionLimit
        THEN "Division limit must be at least 1."
    ELSE IF ~(0 <= c.division_probability /\ c.division_probability <= ProbScale)
        THEN "Division probability must be between 0 and 1."
    ELSE IF c.time_limit < MinTimeLimit THEN "Time limit must be at least 1."
    ELSE NoError

\* Configuration.validate: the first failing check raises ValueError.
Validate(c) ==
    IF c.grid_rows < MinGridRows THEN "Grid rows must be at least 3."
    ELSE IF c.grid_cols < MinGridCols THEN "Grid columns must be at least 3."
    ELSE IF c.initial_population < MinPopulation
        THEN "Initial population must be at least 1."
    ELSE IF c.initial_population > c.grid_rows * c.grid_cols
        THEN "Initial population cannot exceed total number of patches"
    ELSE IF c.age_limit < MinAgeLimit THEN "Age limit must be at least 1."
    ELSE IF c.division_limit < MinDivisionLimit
        THEN "Division limit must be at least 1."
    ELSE IF ~(0 <= c.division_probability /\ c.division_probability <= ProbScale)
        THEN "Division probability must be between 0 and 1."
    ELSE IF c.division_cooldown < MinCooldown
        THEN "Division cooldown must be at least 1."
    ELSE IF c.time_limit < MinTimeLimit THEN "Time limit must be at least 1."
    ELSE NoError

(* ----------------------------- Patch, Cell ---------------------------- *)
Positions(c) == (0 .. c.grid_rows - 1) \X (0 .. c.grid_cols - 1)

NoCell == <<>>
NewCell == [age |-> 0, divisions |-> 0, last_division |-> 0, alive |-> TRUE]

HasCell(g, p) == g[p] # NoCell
CellAt(g, p) == g[p][1]
IsAlive(g, p) == HasCell(g, p) /\ CellAt(g, p).alive

\* Cell.tick()
CellTick(cell) == [cell EXCEPT !.age = @ + 1, !.last_division = @ + 1]
\* the parent's side of Cell.divide()
CellDivide(cell) == [cell EXCEPT !.divisions = @ + 1, !.last_division = 0]
\* Cell(patch): the new cell occupies the patch
PutCell(g, p, cell) == [g EXCEPT ![p] = <<cell>>]
\* Cell.die(): the cell is dead and leaves its patch
RemoveCell(g, p) == [g EXCEPT ![p] = NoCell]

AliveCells(g) == {p \in DOMAIN g : IsAlive(g, p)}
Occupied(g) == {p \in DOMAIN g : HasCell(g, p)}

(* ------------------------------ topology ------------------------------ *)
\* for dr in (-1, 0, 1): for dc in (-1, 0, 1)
Offsets9 == << <<-1, -1>>, <<-1, 0>>, <<-1, 1>>,
               << 0, -1>>, << 0, 0>>, << 0, 1>>,
               << 1, -1>>, << 1, 0>>, << 1, 1>> >>
\* the wrap as it would be with the two moduli exchanged
WrapExchanged(c, row, col, off) ==
    <<(row + off[1]) % c.grid_cols, (col + off[2]) % c.grid_rows>>
\* (nr % grid_rows, nc % grid_cols)
Wrap(c, row, col, off) ==
    <<(row + off[1]) % c.grid_rows, (col + off[2]) % c.grid_cols>>

\* the enumeration as it would be without `if dr == 0 and dc == 0: continue`
Neighbors8WithCentre(c, row, col) ==
    [i \in 1 .. Len(Offsets9) |-> Wrap(c, row, col, Offsets9[i])]

\* the 8 neighbour positions in the order of the two loops
Neighbors8(c, row, col) ==
    LET offs == SelectSeq(Offsets9, LAMBDA o : ~(o[1] = 0 /\ o[2] = 0))
    IN  [i \in 1 .. Len(offs) |-> Wrap(c, row, col, offs[i])]
Neighborhood9(c, row, col) ==
    [i \in 1 .. Len(Offsets9) |-> Wrap(c, row, col, Offsets9[i])]

\* _empty_neighbors as it would be without the has_cell() test
AllNeighbors(g, c, row, col) == Neighbors8(c, row, col)

\* Simulation._empty_neighbors
EmptyNeighbors(g, c, row, col) ==
    SelectSeq(Neighbors8(c, row, col), LAMBDA p : ~HasCell(g, p))

\* random.choice(seq) with raw draw k
Choice(seq, k) == seq[(k % Len(seq)) + 1]
\* the raw draws random.choice can need: enough for a list of 9
ChoiceDraws == 0 .. (Len(Offsets9) - 1)
\* the values of random.random(), in units of 1/ProbScale
RandomDraws == 0 .. (ProbScale - 1)

(* ------------------------------ seeding ------------------------------- *)
Min(a, b) == IF a <= b THEN a ELSE b

\* positions = [(r, c) for r in range(rows) for c in range(cols)]
RowMajor(c, i) == <<i \div c.grid_cols, i % c.grid_cols>>

RECURSIVE Subsets(_, _, _)
\* the sets of k positions among those of row-major index i and above
Subsets(c, i, k) ==
    IF k = 0 THEN {{}}
    ELSE IF c.grid_rows * c.grid_cols - i < k THEN {}
    ELSE {T \cup {RowMajor(c, i)} : T \in Subsets(c, i + 1, k - 1)}
         \cup Subsets(c, i + 1, k)

\* seeding as it would be if each cell drew its position afresh, so that two
\* cells can land on the same patch
SeedChoicesWithRepeats(c) ==
    UNION {Subsets(c, 0, n) :
              n \in 1 .. Min(c.initial_population, c.grid_rows * c.grid_cols)}

\* random.shuffle(positions) followed by initial_population pops: the cells
\* land on the last initial_population positions of the permutation, which can
\* be any set of that many distinct positions (all of them when the list runs
\* out first).
SeedChoices(c) ==
    Subsets(c, 0, Min(c.initial_population, c.grid_rows * c.grid_cols))

(* --------------------------- pending deaths --------------------------- *)
EmptyMap == [p \in {} |-> {}]

\* cells_to_die.setdefault(patch, set()).add(cause)
AddCause(m, p, cause) ==
    [q \in DOMAIN m \cup {p} |->
        IF q = p THEN (IF p \in DOMAIN m THEN m[p] ELSE {}) \cup {cause}
        ELSE m[q]]

(* ------------------- the engine as a record of fields ----------------- *)
\* A Simulation before __init__ has run.  hash_seed is the hash seed of the
\* Python process that runs it (it orders the iteration of a set of strings
\* such as a set of causes); two processes need not share it.
NewEngine(seed) ==
    [pc |-> "new", error |-> NoError, hash_seed |-> seed,
     grid |-> [p \in {} |-> NoCell], current_tick |-> 0,
     total_cells_created |-> 0, total_deaths |-> 0, deaths_by_age |-> 0,
     deaths_by_division_limit |-> 0, deaths_by_overcrowding |-> 0,
     cells_to_die |-> EmptyMap, births |-> <<>>, visit |-> 0]

Engine ==
    [pc |-> pc, error |-> error, hash_seed |-> 0,
     grid |-> grid, current_tick |-> current_tick,
     total_cells_created |-> total_cells_created,
     total_deaths |-> total_deaths, deaths_by_age |-> deaths_by_age,
     deaths_by_division_limit |-> deaths_by_division_limit,
     deaths_by_overcrowding |-> deaths_by_overcrowding,
     cells_to_die |-> cells_to_die, births |-> births, visit |-> visit]

Install(e) ==
    /\ pc' = e.pc
    /\ error' = e.error
    /\ grid' = e.grid
    /\ current_tick' = e.current_tick
    /\ total_cells_created' = e.total_cells_created
    /\ total_deaths' = e.total_deaths
    /\ deaths_by_age' = e.deaths_by_age
    /\ deaths_by_division_limit' = e.deaths_by_division_limit
    /\ deaths_by_overcrowding' = e.deaths_by_overcrowding
    /\ cells_to_die' = e.cells_to_die
    /\ births' = e.births
    /\ visit' = e.visit

\* _seed_initial_cells as it would be if it counted only its first cell
SeedInitialCellsCountedOnce(e, c, seeds) ==
    [e EXCEPT
        !.grid = [p \in DOMAIN @ |-> IF p \in seeds THEN <<NewCell>> ELSE @[p]],
        !.total_cells_created = @ + 1]

\* _seed_initial_cells with the cells landing on the positions of seeds
SeedInitialCells(e, c, seeds) ==
    [e EXCEPT
        !.grid = [p \in DOMAIN @ |-> IF p \in seeds THEN <<NewCell>> ELSE @[p]],
        !.total_cells_created = @ + Cardinality(seeds)]

\* Simulation.__init__: validate() raises, or the grid of empty patches is
\* built, the statistics are zeroed and the initial cells are seeded.
ConstructStep(e, c, seeds) ==
    IF Validate(c) # NoError
    THEN [e EXCEPT !.pc = "rejected", !.error = Validate(c)]
    ELSE SeedInitialCells(
             [e EXCEPT !.pc = "constructed",
                       !.grid = [p \in Positions(c) |-> NoCell],
                       !.current_tick = 0,
                       !.total_cells_created = 0,
                       !.total_deaths = 0,
                       !.deaths_by_age = 0,
                       !.deaths_by_division_limit = 0,
                       !.deaths_by_overcrowding = 0],
             c, seeds)

\* _all_cells_dead as it would be if it returned True at the first patch
\* without a living cell
SomePatchWithoutCell(g) == \E p \in DOMAIN g : ~(HasCell(g, p) /\ CellAt(g, p).alive)

\* Simulation._all_cells_dead
AllCellsDead(g) == \A p \in DOMAIN g : ~(HasCell(g, p) /\ CellAt(g, p).alive)

\* phase 1 of _simulate_tick
AgeAll(g) ==
    [p \in DOMAIN g |->
        IF HasCell(g, p) /\ CellAt(g, p).alive THEN <<CellTick(CellAt(g, p))>>
        ELSE g[p]]

\* the scheduling tests as they would be with > in place of >=
ScheduledCausesStrict(g, c, p) ==
    (IF CellAt(g, p).age > c.age_limit THEN {"age"} ELSE {})
    \cup (IF CellAt(g, p).divisions > c.division_limit
          THEN {"division_limit"} ELSE {})

\* phase 2 of _simulate_tick
\* the tests of phase 2 as they would be if the division limit were
\* applied one division early
ScheduledCausesEarly(g, c, p) ==
    (IF CellAt(g, p).age >= c.age_limit THEN {"age"} ELSE {})
    \cup (IF CellAt(g, p).divisions + 1 >= c.division_limit
          THEN {"division_limit"} ELSE {})

ScheduledCauses(g, c, p) ==
    (IF CellAt(g, p).age >= c.age_limit THEN {"age"} ELSE {})
    \cup (IF CellAt(g, p).divisions >= c.division_limit
          THEN {"division_limit"} ELSE {})
ScheduleDeaths(g, c, m) ==
    LET tagged == {p \in DOMAIN g :
                     /\ HasCell(g, p)
                     /\ CellAt(g, p).alive
                     /\ ScheduledCauses(g, c, p) # {}}
    IN  [p \in DOMAIN m \cup tagged |->
            (IF p \in DOMAIN m THEN m[p] ELSE {})
            \cup (IF p \in tagged THEN ScheduledCauses(g, c, p) ELSE {})]

\* overcrowding as it would be if the iterated cell were removed outright
OvercrowdingKillsAtOnce(e, c, row, col, k) ==
    [e EXCEPT !.grid = RemoveCell(@, <<row, col>>),
              !.cells_to_die = AddCause(@, <<row, col>>, "overcrowding")]

\* _handle_overcrowding as it would be with min() in place of max()
HandleOvercrowdingYoungest(e, c, row, col, k) ==
    LET g == e.grid
        region_cells ==
            SelectSeq(Neighborhood9(c, row, col), LAMBDA p : IsAlive(g, p))
        ages == {CellAt(g, region_cells[i]).age : i \in 1 .. Len(region_cells)}
        min_age == CHOOSE a \in ages : \A b \in ages : b >= a
        youngest_patches ==
            SelectSeq(region_cells, LAMBDA p : CellAt(g, p).age = min_age)
    IN  IF region_cells # <<>>
        THEN [e EXCEPT !.cells_to_die =
                 AddCause(@, Choice(youngest_patches, k), "overcrowding")]
        ELSE e

\* Simulation._handle_overcrowding with raw draw k for random.choice
HandleOvercrowding(e, c, row, col, k) ==
    LET g == e.grid
        region_cells ==
            SelectSeq(Neighborhood9(c, row, col), LAMBDA p : IsAlive(g, p))
        ages == {CellAt(g, region_cells[i]).age : i \in 1 .. Len(region_cells)}
        max_age == CHOOSE a \in ages : \A b \in ages : b <= a
        oldest_patches ==
            SelectSeq(region_cells, LAMBDA p : CellAt(g, p).age = max_age)
    IN  IF region_cells # <<>>
        THEN [e EXCEPT !.cells_to_die =
                 AddCause(@, Choice(oldest_patches, k), "overcrowding")]
        ELSE e

\* the division as it would be without the division_limit test after it
DivideUnscheduled(e, c, p, target) ==
    LET parent == CellDivide(CellAt(e.grid, p))
    IN  [e EXCEPT
            !.grid = PutCell(PutCell(@, p, parent), target, NewCell),
            !.births = Append(@, target),
            !.total_cells_created = @ + 1]

\* the division as it would be without self.total_cells_created += 1
DivideUncounted(e, c, p, target) ==
    LET parent == CellDivide(CellAt(e.grid, p))
    IN  [e EXCEPT
            !.grid = PutCell(PutCell(@, p, parent), target, NewCell),
            !.births = Append(@, target),
            !.cells_to_die =
                IF parent.divisions >= c.division_limit
                THEN AddCause(@, p, "division_limit") ELSE @]

\* the successful branch of the division attempt: cell.divide(target_patch)
\* puts the child on the target at once; births only records it.
Divide(e, c, p, target) ==
    LET parent == CellDivide(CellAt(e.grid, p))
    IN  [e EXCEPT
            !.grid = PutCell(PutCell(@, p, parent), target, NewCell),
            !.births = Append(@, target),
            !.total_cells_created = @ + 1,
            !.cells_to_die =
                IF parent.divisions >= c.division_limit
                THEN AddCause(@, p, "division_limit") ELSE @]

\* the three `continue`s as they would be if a cell had to wait one tick
\* longer than the cooldown
AttemptsAfterCooldown(e, c, row, col) ==
    /\ HasCell(e.grid, <<row, col>>)
    /\ CellAt(e.grid, <<row, col>>).alive
    /\ <<row, col>> \notin DOMAIN e.cells_to_die
    /\ ~(CellAt(e.grid, <<row, col>>).last_division <= c.division_cooldown)

\* the three `continue`s as they would be without `if patch in cells_to_die`
AttemptsWhilePending(e, c, row, col) ==
    /\ HasCell(e.grid, <<row, col>>)
    /\ CellAt(e.grid, <<row, col>>).alive
    /\ ~(CellAt(e.grid, <<row, col>>).last_division < c.division_cooldown)

\* whether the iteration of phase 3 at (row, col) reaches the division
\* attempt: none of the three `continue`s is taken
Attempts(e, c, row, col) ==
    /\ HasCell(e.grid, <<row, col>>)
    /\ CellAt(e.grid, <<row, col>>).alive
    /\ <<row, col>> \notin DOMAIN e.cells_to_die
    /\ ~(CellAt(e.grid, <<row, col>>).last_division < c.division_cooldown)

\* the probability test as it would be if it were inverted
SucceedsInverted(c, d) == d > c.division_probability

\* random.random() < self.config.division_probability
Succeeds(c, d) == d < c.division_probability

\* one iteration of the loops of phase 3, at (row, col), with d the value of
\* random.random() and k the raw draw of random.choice, when they are drawn
DivisionAt(e, c, row, col, d, k) ==
    LET empty_neighbors == EmptyNeighbors(e.grid, c, row, col)
    IN  IF ~Attempts(e, c, row, col) THEN e
        ELSE IF empty_neighbors # <<>>
            THEN IF Succeeds(c, d)
                 THEN Divide(e, c, <<row, col>>, Choice(empty_neighbors, k))
                 ELSE e
        ELSE HandleOvercrowding(e, c, row, col, k)

\* commit as it would be if total_deaths were incremented once per cause
CommitCountsCauses(e) ==
    LET dying == {p \in DOMAIN e.cells_to_die : IsAlive(e.grid, p)}
        count(cause) == Cardinality({p \in dying : cause \in e.cells_to_die[p]})
    IN  [e EXCEPT
            !.grid = [p \in DOMAIN @ |-> IF p \in dying THEN NoCell ELSE @[p]],
            !.total_deaths = @ + count("age") + count("division_limit")
                               + count("overcrowding"),
            !.deaths_by_age = @ + count("age"),
            !.deaths_by_division_limit = @ + count("division_limit"),
            !.deaths_by_overcrowding = @ + count("overcrowding")]

\* commit as it would be if it counted only the first cause that iterating
\* over the set of causes yields: that order follows the process's hash seed
CommitFirstCause(e) ==
    LET dying == {p \in DOMAIN e.cells_to_die : IsAlive(e.grid, p)}
        order == IF e.hash_seed = 0
                 THEN <<"age", "division_limit", "overcrowding">>
                 ELSE <<"overcrowding", "division_limit", "age">>
        first(p) == order[CHOOSE i \in 1 .. 3 :
                            /\ order[i] \in e.cells_to_die[p]
                            /\ \A j \in 1 .. (i - 1) : order[j] \notin e.cells_to_die[p]]
        count(cause) == Cardinality({p \in dying : first(p) = cause})
    IN  [e EXCEPT
            !.grid = [p \in DOMAIN @ |-> IF p \in dying THEN NoCell ELSE @[p]],
            !.total_deaths = @ + Cardinality(dying),
            !.deaths_by_age = @ + count("age"),
            !.deaths_by_division_limit = @ + count("division_limit"),
            !.deaths_by_overcrowding = @ + count("overcrowding")]

\* phase 5 of _simulate_tick
Dying(e) == {p \in DOMAIN e.cells_to_die : IsAlive(e.grid, p)}
CountCause(e, cause) ==
    Cardinality({p \in Dying(e) : cause \in e.cells_to_die[p]})
Commit(e) ==
    [e EXCEPT
        !.grid = [p \in DOMAIN @ |-> IF p \in Dying(e) THEN NoCell ELSE @[p]],
        !.total_deaths = @ + Cardinality(Dying(e)),
        !.deaths_by_age = @ + CountCause(e, "age"),
        !.deaths_by_division_limit = @ + CountCause(e, "division_limit"),
        !.deaths_by_overcrowding = @ + CountCause(e, "overcrowding")]

(* --------------------------- configurations --------------------------- *)
Config(rows, cols, pop, age, div, prob, cool, time) ==
    [grid_rows |-> rows, grid_cols |-> cols, initial_population |-> pop,
     age_limit |-> age, division_limit |-> div, division_probability |-> prob,
     division_cooldown |-> cool, time_limit |-> time]

\* sparse grids, cells that may divide in every tick, with a probability
\* strictly between 0 and 1: a first division and the tick after it
SparseConfigs ==
    {Config(MinGridRows, MinGridCols, 1, age, div, 1, MinCooldown,
            MinTimeLimit + 1) :
        age \in MinAgeLimit .. MaxAgeLimit,
        div \in MinDivisionLimit .. MaxDivisionLimit}

\* sparse grids, cells that wait between divisions, up to the longest run
SlowConfigs ==
    {Config(MinGridRows, MinGridCols, 1, age, div, 1, cool, MaxTimeLimit) :
        age \in MinAgeLimit .. MaxAgeLimit,
        div \in MinDivisionLimit .. MaxDivisionLimit,
        cool \in MinCooldown + 1 .. MaxCooldown}

\* crowded grids: the last free patch is taken and overcrowding is resolved
CrowdedConfigs ==
    {Config(MinGridRows, MinGridCols, pop, MaxAgeLimit, div, 1, MinCooldown,
            MinTimeLimit) :
        pop \in {MinGridRows * MinGridCols - 1, MinGridRows * MinGridCols},
        div \in {MinDivisionLimit, MaxDivisionLimit}}

\* the ends of the probability range and every time limit
EdgeConfigs ==
    {Config(MinGridRows, MinGridCols, 1, MaxAgeLimit, MinDivisionLimit, prob,
            MinCooldown, time) :
        prob \in {0, ProbScale}, time \in MinTimeLimit .. MaxTimeLimit}

\* grids that are not square
WideConfigs ==
    {Config(MinGridRows, MinGridCols + 1, 1, MaxAgeLimit, MinDivisionLimit,
            ProbScale, MinCooldown, MinTimeLimit),
     Config(MinGridRows + 1, MinGridCols, 1, MaxAgeLimit, MinDivisionLimit,
            ProbScale, MinCooldown, MinTimeLimit)}

\* a cell that must wait between divisions, divides with certainty and
\* lives long enough to divide twice
PatientConfigs ==
    {Config(MinGridRows, MinGridCols, 1, 2 * (MinCooldown + 1) + 1,
            MaxDivisionLimit, ProbScale, MinCooldown + 1, 2 * (MinCooldown + 1))}

\* two seeded cells with short lives: in the second tick a cell that has not
\* divided reaches its age limit while a child reaches its division limit
PairConfigs ==
    {Config(MinGridRows, MinGridCols, MinPopulation + 1, MinAgeLimit + 1,
            MinDivisionLimit, 1, MinCooldown, MinTimeLimit + 1)}

GenericConfigs ==
    SparseConfigs \cup SlowConfigs \cup CrowdedConfigs \cup EdgeConfigs
    \cup WideConfigs \cup PatientConfigs \cup PairConfigs

\* configurations one step outside each constraint of validate()
Base == Config(MinGridRows, MinGridCols, 1, 1, 1, ProbScale, 1, 1)
InvalidConfigs ==
    {[Base EXCEPT !.grid_rows = MinGridRows - 1],
     [Base EXCEPT !.grid_cols = MinGridCols - 1],
     [Base EXCEPT !.initial_population = MinPopulation - 1],
     [Base EXCEPT !.initial_population = MinGridRows * MinGridCols + 1],
     [Base EXCEPT !.age_limit = MinAgeLimit - 1],
     [Base EXCEPT !.division_limit = MinDivisionLimit - 1],
     [Base EXCEPT !.division_probability = -1],
     [Base EXCEPT !.division_probability = ProbScale + 1],
     [Base EXCEPT !.division_cooldown = MinCooldown - 1],
     [Base EXCEPT !.time_limit = MinTimeLimit - 1],
     [Base EXCEPT !.grid_rows = MinGridRows - 1, !.time_limit = MinTimeLimit - 1]}

\* the scenarios of the specification (section 8)
ScenarioA == Config(3, 3, 1, 1, 5, 0, 5, 2)
ScenarioB == Config(5, 5, 1, 100, 100, ProbScale, 0, 1)
ScenarioBCooldown1 == [ScenarioB EXCEPT !.division_cooldown = 1]
ScenarioC(cool) == Config(3, 3, 9, 100, 100, 0, cool, 1)
ScenarioConfigs ==
    {ScenarioA, ScenarioB, ScenarioBCooldown1}
    \cup {ScenarioC(cool) : cool \in MinCooldown .. MaxCooldown}

Configs == GenericConfigs \cup InvalidConfigs \cup ScenarioConfigs

(* --------------------------- steps of run() --------------------------- *)
\* the while test of run() and the break: the loop ends, or a tick begins
\* with cells_to_die = {} and births = []
LoopStep(e, c) ==
    IF ~(e.current_tick < c.time_limit) THEN [e EXCEPT !.pc = "done"]
    ELSE IF AllCellsDead(e.grid) THEN [e EXCEPT !.pc = "done"]
    ELSE [e EXCEPT !.pc = "age", !.cells_to_die = EmptyMap, !.births = <<>>]

AgeStep(e) == [e EXCEPT !.pc = "schedule", !.grid = AgeAll(@)]

\* phase 2 as it would be if it applied the deaths it schedules
ScheduleStepApplies(e, c) ==
    [Commit([e EXCEPT !.cells_to_die = ScheduleDeaths(e.grid, c, @)])
        EXCEPT !.pc = "divide", !.visit = 0]

ScheduleStep(e, c) ==
    [e EXCEPT !.pc = "divide", !.visit = 0,
              !.cells_to_die = ScheduleDeaths(e.grid, c, @)]

\* the iteration of phase 3 at row-major index visit, and the loops moving on
DivisionStep(e, c, d, k) ==
    LET after == DivisionAt(e, c, RowMajor(c, e.visit)[1],
                            RowMajor(c, e.visit)[2], d, k)
    IN  [after EXCEPT
            !.visit = @ + 1,
            !.pc = IF e.visit + 1 < c.grid_rows * c.grid_cols
                   THEN "divide" ELSE "commit"]

\* phase 5, the return of _simulate_tick (its locals are gone) and
\* self.current_tick += 1
CommitStep(e) ==
    [Commit(e) EXCEPT
        !.pc = "loop", !.current_tick = @ + 1,
        !.cells_to_die = EmptyMap, !.births = <<>>, !.visit = 0]

\* the next step of an engine, given the outcome of the random calls it makes
EngineStep(e, c, seeds, d, k) ==
    CASE e.pc = "new" -> ConstructStep(e, c, seeds)
      [] e.pc = "constructed" -> [e EXCEPT !.pc = "loop"]
      [] e.pc = "loop" -> LoopStep(e, c)
      [] e.pc = "age" -> AgeStep(e)
      [] e.pc = "schedule" -> ScheduleStep(e, c)
      [] e.pc = "divide" -> DivisionStep(e, c, d, k)
      [] e.pc = "commit" -> CommitStep(e)
      [] OTHER -> e

\* the values random.random() can return where the iteration calls it
RandomDrawsAt(e, c, row, col) ==
    IF Attempts(e, c, row, col) /\ EmptyNeighbors(e.grid, c, row, col) # <<>>
    THEN RandomDraws ELSE {0}

\* the raw draws that tell the outcomes of random.choice apart where the
\* iteration calls it
ChoiceDrawsAt(e, c, row, col) ==
    IF Attempts(e, c, row, col) THEN ChoiceDraws ELSE {0}

(* ------------------------------ actions ------------------------------- *)
\* the ledger of a patch without a cell, and of a cell seeded at construction
\* that has not divided: ticks are numbered from 1
Unrecorded == [created |-> 0, divided |-> 0]

Init ==
    /\ config \in Configs
    /\ pc = "new"
    /\ error = NoError
    /\ grid = NewEngine(0).grid
    /\ current_tick = 0
    /\ total_cells_created = 0
    /\ total_deaths = 0
    /\ deaths_by_age = 0
    /\ deaths_by_division_limit = 0
    /\ deaths_by_overcrowding = 0
    /\ cells_to_die = EmptyMap
    /\ births = <<>>
    /\ visit = 0
    /\ committed_dead = 0
    /\ ledger = [p \in {} |-> Unrecorded]
    /\ twin = NewEngine(1)

\* Both engines take their next step with the same outcome of the random
\* calls; committed_dead counts the cells the step removed from the grid and
\* ledger records, in the tick that runs, the cells it created and the cells
\* whose divisions() it raised.
Advance(seeds, d, k) ==
    /\ Install(EngineStep(Engine, config, seeds, d, k))
    /\ twin' = EngineStep(twin, config, seeds, d, k)
    /\ committed_dead' = committed_dead
          + Cardinality({p \in DOMAIN grid : IsAlive(grid, p) /\ ~IsAlive(grid', p)})
    /\ ledger' =
          [p \in DOMAIN grid' |->
              IF ~HasCell(grid', p) THEN Unrecorded
              ELSE IF p \notin DOMAIN grid THEN Unrecorded
              ELSE IF ~HasCell(grid, p)
                  THEN [created |-> current_tick + 1, divided |-> 0]
              ELSE IF CellAt(grid', p).divisions > CellAt(grid, p).divisions
                  THEN [ledger[p] EXCEPT !.divided = current_tick + 1]
              ELSE ledger[p]]
    /\ UNCHANGED config

\* Simulation(config) when validate() raises: nothing is built
ConstructRejected ==
    /\ pc = "new"
    /\ Validate(config) # NoError
    /\ Advance({}, 0, 0)

\* Simulation(config) when validate() returns: random.shuffle decides seeds
Construct ==
    /\ pc = "new"
    /\ Validate(config) = NoError
    /\ \E seeds \in SeedChoices(config) : Advance(seeds, 0, 0)

\* sim.run() is called
Run ==
    /\ pc = "constructed"
    /\ Advance({}, 0, 0)

\* the while test fails: the time limit is reached
LoopEnd ==
    /\ pc = "loop"
    /\ ~(current_tick < config.time_limit)
    /\ Advance({}, 0, 0)

\* if self._all_cells_dead(): break
LoopBreak ==
    /\ pc = "loop"
    /\ current_tick < config.time_limit
    /\ AllCellsDead(grid)
    /\ Advance({}, 0, 0)

\* _simulate_tick() is entered
TickBegin ==
    /\ pc = "loop"
    /\ current_tick < config.time_limit
    /\ ~AllCellsDead(grid)
    /\ Advance({}, 0, 0)

\* 1. Age all cells.
AgePhase ==
    /\ pc = "age"
    /\ Advance({}, 0, 0)

\* 2. Schedule deaths due to age or division limit.
SchedulePhase ==
    /\ pc = "schedule"
    /\ Advance({}, 0, 0)

\* 3. Attempt cell divisions (4. overcrowding): the patch at index visit
DivisionVisit ==
    /\ pc = "divide"
    /\ \E d \in RandomDrawsAt(Engine, config, RowMajor(config, visit)[1],
                              RowMajor(config, visit)[2]),
          k \in ChoiceDrawsAt(Engine, config, RowMajor(config, visit)[1],
                              RowMajor(config, visit)[2]) :
          Advance({}, d, k)

\* 5. Apply scheduled cell deaths; the tick returns and run() counts it.
CommitPhase ==
    /\ pc = "commit"
    /\ Advance({}, 0, 0)

Next ==
    \/ ConstructRejected
    \/ Construct
    \/ Run
    \/ LoopEnd
    \/ LoopBreak
    \/ TickBegin
    \/ AgePhase
    \/ SchedulePhase
    \/ DivisionVisit
    \/ CommitPhase

Spec == Init /\ [][Next]_vars


(* ======================= properties of the program ==================== *)
\* the positions between two ticks: nothing of a tick is in progress
BetweenTicks == pc \in {"constructed", "loop", "done"}

CauseCounters == deaths_by_age + deaths_by_division_limit + deaths_by_overcrowding

\* C1: after any number of completed ticks total_deaths equals the number of
\* cells committed dead so far, each per-cause counter is at most
\* total_deaths, and the three per-cause counters sum to at least total_deaths.
C1_DeathCounters ==
    BetweenTicks =>
        /\ total_deaths = committed_dead
        /\ deaths_by_age <= total_deaths
        /\ deaths_by_division_limit <= total_deaths
        /\ deaths_by_overcrowding <= total_deaths
        /\ CauseCounters >= total_deaths

\* a tick has committed several cells, one of them with two causes
C1_Witness ==
    /\ pc = "loop"
    /\ total_deaths >= 2
    /\ CauseCounters > total_deaths

\* C2: at the commit phase a patch's cell is killed if and only if the patch
\* has a non-empty cause set in cells_to_die when the phase starts (so every
\* patch entered during phases 2-4 still holds an alive cell then), and no
\* cell leaves the grid in any other step.
Killed(p) == IsAlive(grid, p) /\ ~IsAlive(grid', p)
C2_KilledIffPending ==
    [][\A p \in DOMAIN grid :
          Killed(p) <=> /\ pc = "commit"
                        /\ p \in DOMAIN cells_to_die
                        /\ cells_to_die[p] # {}]_vars

\* commit is about to start with two pending patches and a cell that stays
C2_Witness ==
    /\ pc = "commit"
    /\ Cardinality(DOMAIN cells_to_die) >= 2
    /\ AliveCells(grid) \ DOMAIN cells_to_die # {}

\* C3: immediately after construction exactly initial_population distinct
\* patches hold an alive cell, every other patch is empty, total_created
\* equals initial_population and all death counters are 0.
C3_Seeded ==
    pc = "constructed" =>
        /\ DOMAIN grid = Positions(config)
        /\ Cardinality(AliveCells(grid)) = config.initial_population
        /\ \A p \in DOMAIN grid : p \notin AliveCells(grid) => grid[p] = NoCell
        /\ total_cells_created = config.initial_population
        /\ total_deaths = 0
        /\ deaths_by_age = 0
        /\ deaths_by_division_limit = 0
        /\ deaths_by_overcrowding = 0

\* an engine has just been built with more than one cell and a free patch
C3_Witness ==
    /\ pc = "constructed"
    /\ config.initial_population > 1
    /\ Occupied(grid) # DOMAIN grid

\* C4: every patch holds at most one cell: a division never places its child
\* on a patch that is occupied, be it by a seeded cell or by a child placed
\* earlier in the same tick, so the children of a tick are on distinct patches.
C4_OneCellPerPatch ==
    [][/\ \A p \in DOMAIN grid' : Len(grid'[p]) <= 1
       /\ Len(births') > Len(births) =>
             /\ ~HasCell(grid, births'[Len(births')])
             /\ \A i \in 1 .. Len(births) : births[i] # births'[Len(births')]]_vars

\* a second child has been placed in the same tick
C4_Witness ==
    /\ pc \in {"divide", "commit"}
    /\ Len(births) >= 2

\* C5: a successful division increases the parent's divisions by 1, resets
\* its ticks_since_division, increases total_created by 1 and creates an alive
\* cell with age 0, divisions 0 and ticks_since_division 0 on one of the
\* parent's 8 toroidal neighbours, which was empty; the parent stays in place.
ToroidalNeighbours(p) ==
    {<<(p[1] + dr) % config.grid_rows, (p[2] + dc) % config.grid_cols>> :
        dr \in {-1, 0, 1}, dc \in {-1, 0, 1}} \ {p}
C5_Division ==
    [][Len(births') > Len(births) =>
          LET parent == RowMajor(config, visit)
              target == births'[Len(births')]
          IN  /\ Len(births') = Len(births) + 1
              /\ IsAlive(grid, parent) /\ IsAlive(grid', parent)
              /\ CellAt(grid', parent).divisions = CellAt(grid, parent).divisions + 1
              /\ CellAt(grid', parent).last_division = 0
              /\ CellAt(grid', parent).age = CellAt(grid, parent).age
              /\ total_cells_created' = total_cells_created + 1
              /\ target \in ToroidalNeighbours(parent)
              /\ grid[target] = NoCell
              /\ grid'[target] =
                    <<[age |-> 0, divisions |-> 0, last_division |-> 0, alive |-> TRUE]>>
              /\ \A q \in DOMAIN grid \ {parent, target} : grid'[q] = grid[q]]_vars

\* a cell that had divided before and had waited has divided again
C5_Witness ==
    /\ pc \in {"divide", "commit"}
    /\ births # <<>>
    /\ \E p \in DOMAIN grid :
          /\ IsAlive(grid, p)
          /\ CellAt(grid, p).divisions = 2
          /\ CellAt(grid, p).last_division = 0

\* C6: two engines built from the same configuration and fed the same random
\* draws have identical statistics after construction and after every tick,
\* whatever else differs between the two processes.
Statistics(e) ==
    <<e.total_cells_created, e.total_deaths, e.deaths_by_age,
      e.deaths_by_division_limit, e.deaths_by_overcrowding>>
Terminated == pc \in {"done", "rejected"}
TicksLeft == config.time_limit - current_tick
Patches == config.grid_rows * config.grid_cols
\* the number of steps run() can still take
Rank ==
    CASE pc = "new" -> (IF config.time_limit > 0 THEN config.time_limit ELSE 0)
                          * (Patches + 4) + Patches + 7
      [] pc = "constructed" -> TicksLeft * (Patches + 4) + 2
      [] pc = "loop" -> TicksLeft * (Patches + 4) + 1
      [] pc = "age" -> (TicksLeft - 1) * (Patches + 4) + Patches + 4
      [] pc = "schedule" -> (TicksLeft - 1) * (Patches + 4) + Patches + 3
      [] pc = "divide" -> (TicksLeft - 1) * (Patches + 4) + Patches + 2 - visit
      [] pc = "commit" -> (TicksLeft - 1) * (Patches + 4) + 2
      [] OTHER -> 0
C7_RunLoop ==
    [][/\ pc = "loop" =>
             (pc' = "age" <=> /\ current_tick < config.time_limit
                              /\ AliveCells(grid) # {})
       /\ pc = "loop" /\ pc' # "age" => pc' = "done"
       /\ current_tick' # current_tick =>
             /\ pc = "commit" /\ pc' = "loop"
             /\ current_tick' = current_tick + 1
       /\ pc' \notin {"new", "rejected"} => current_tick' <= config.time_limit
       /\ pc' = "done" =>
             current_tick' = config.time_limit \/ AliveCells(grid') = {}
       /\ Rank' >= 0 /\ Rank' < Rank]_vars

\* the loop was left early: the time limit allowed another tick
C7_Witness ==
    /\ pc = "done"
    /\ current_tick >= 1
    /\ current_tick < config.time_limit
    /\ AliveCells(grid) = {}

\* C8: construction with a configuration that violates a constraint ends in a
\* validation failure before any grid is built or cell seeded, and every
\* configuration that satisfies all the constraints is accepted.
Satisfies(c) ==
    /\ c.grid_rows >= 3
    /\ c.grid_cols >= 3
    /\ 1 <= c.initial_population
    /\ c.initial_population <= c.grid_rows * c.grid_cols
    /\ c.age_limit >= 1
    /\ c.division_limit >= 1
    /\ 0 <= c.division_probability
    /\ c.division_probability <= ProbScale
    /\ c.division_cooldown >= 1
    /\ c.time_limit >= 1
C8_Validation ==
    /\ pc # "new" => (pc = "rejected" <=> ~Satisfies(config))
    /\ ~Satisfies(config) =>
          /\ DOMAIN grid = {}
          /\ total_cells_created = 0
          /\ pc = "rejected" => error # NoError

\* a configuration whose only fault is its division cooldown was rejected
C8_Witness ==
    /\ pc = "rejected"
    /\ Satisfies([config EXCEPT !.division_cooldown = 1])
    /\ DOMAIN grid = {}

\* C9: scenario A: after tick 1 the counters are total_deaths = 1,
\* deaths_by_age = 1, the other causes 0 and total_created = 1, and the run
\* stops with current_tick = 1 because no cell is alive.
C9_ScenarioA ==
    config = ScenarioA =>
        /\ current_tick <= 1
        /\ pc \in {"new", "constructed", "loop", "age", "schedule", "divide",
                   "commit", "done"}
        /\ (current_tick = 1 \/ pc = "done") =>
              /\ current_tick = 1
              /\ total_deaths = 1
              /\ deaths_by_age = 1
              /\ deaths_by_division_limit = 0
              /\ deaths_by_overcrowding = 0
              /\ total_cells_created = 1
              /\ AliveCells(grid) = {}

\* scenario A has run to its end
C9_Witness ==
    /\ config = ScenarioA
    /\ pc = "done"
    /\ current_tick = 1

\* C10 as stated: scenario B (division_cooldown = 0) is constructed and after
\* tick 1 total_created = 2 and total_deaths = 0.
AfterTickOne(c) ==
    /\ config = c
    /\ pc = "loop" \/ pc = "done"
    /\ current_tick = 1
C10_ScenarioBAsStated ==
    config = ScenarioB =>
        /\ pc # "rejected"
        /\ AfterTickOne(ScenarioB) =>
              total_cells_created = 2 /\ total_deaths = 0

\* C10 amended: scenario B with division_cooldown = 1, the smallest cooldown
\* validate() accepts, is constructed and after tick 1 total_created = 2 and
\* total_deaths = 0; with division_cooldown = 0 construction is rejected.
C10_ScenarioB ==
    /\ config = ScenarioBCooldown1 =>
          /\ pc # "rejected"
          /\ AfterTickOne(ScenarioBCooldown1) =>
                total_cells_created = 2 /\ total_deaths = 0
    /\ config = ScenarioB => pc \in {"new", "rejected"}

\* scenario B with cooldown 1 has completed its tick
C10_Witness ==
    /\ AfterTickOne(ScenarioBCooldown1)
    /\ pc = "done"
    /\ Cardinality(AliveCells(grid)) = 2

\* C11 as stated: scenario C with any valid division_cooldown: after tick 1
\* total_deaths >= 1 and deaths_by_overcrowding >= 1.
C11_ScenarioCAsStated ==
    \A cool \in MinCooldown .. MaxCooldown :
        AfterTickOne(ScenarioC(cool)) =>
            total_deaths >= 1 /\ deaths_by_overcrowding >= 1

\* C11 amended: in scenario C no patch ever has an empty neighbour; with
\* division_cooldown = 1 every visit of tick 1 is a division attempt and
\* after tick 1 total_deaths >= 1 and deaths_by_overcrowding >= 1; with a
\* longer cooldown no cell attempts a division in tick 1 and nothing dies.
C11_ScenarioC ==
    \A cool \in MinCooldown .. MaxCooldown :
        config = ScenarioC(cool) =>
            /\ pc = "divide" =>
                  /\ \A p \in DOMAIN grid :
                        EmptyNeighbors(grid, config, p[1], p[2]) = <<>>
                  /\ cool = MinCooldown =>
                        \A p \in DOMAIN grid :
                            p \notin DOMAIN cells_to_die =>
                                Attempts(Engine, config, p[1], p[2])
                  /\ cool > MinCooldown =>
                        \A p \in DOMAIN grid : ~Attempts(Engine, config, p[1], p[2])
            /\ AfterTickOne(config) =>
                  IF cool = MinCooldown
                  THEN total_deaths >= 1 /\ deaths_by_overcrowding >= 1
                  ELSE total_deaths = 0 /\ deaths_by_overcrowding = 0

\* scenario C with cooldown 1 has completed its tick and overcrowding has
\* removed more than one cell
C11_Witness ==
    /\ AfterTickOne(ScenarioC(MinCooldown))
    /\ deaths_by_overcrowding >= 2
    /\ deaths_by_overcrowding = total_deaths

\* the phases of a tick before the deaths are applied
BeforeCommit == pc \in {"age", "schedule", "divide"}

\* C12: within a tick the set of occupied patches is left unchanged by the
\* aging, scheduling, division and overcrowding phases: a birth is only
\* recorded in births, and occupancy changes in the commit phase alone.
C12_OccupancyFrame ==
    [][BeforeCommit => Occupied(grid') = Occupied(grid)]_vars

\* C13: no cell is killed or removed before the commit phase: every step
\* outside it leaves every cell on its patch with its alive flag and leaves
\* total_deaths and the three per-cause counters unchanged; the commit phase
\* applies all the scheduled deaths of the tick in one step.
DeathCounters ==
    <<total_deaths, deaths_by_age, deaths_by_division_limit, deaths_by_overcrowding>>
C13_DeathsAtCommit ==
    [][/\ pc # "commit" =>
             /\ DeathCounters' = DeathCounters
             /\ \A p \in DOMAIN grid :
                   HasCell(grid, p) =>
                       /\ HasCell(grid', p)
                       /\ CellAt(grid', p).alive = CellAt(grid, p).alive
       /\ pc = "commit" =>
             /\ total_deaths' = total_deaths + Cardinality(DOMAIN cells_to_die)
             /\ \A p \in DOMAIN cells_to_die : ~IsAlive(grid', p)]_vars

\* the deaths of a tick are all still pending when its commit starts: a
\* cell scheduled by age, one by overcrowding, and no death counted so far
C13_Witness ==
    /\ pc = "commit"
    /\ total_deaths = 0
    /\ \E p, q \in DOMAIN cells_to_die :
          /\ p # q
          /\ "overcrowding" \in cells_to_die[p]
          /\ "division_limit" \in cells_to_die[q]
          /\ IsAlive(grid, p) /\ IsAlive(grid, q)

\* C14: on every grid with at least 3 rows and 3 columns and at every
\* position, the 8-neighbour enumeration returns 8 positions, each in range
\* and each the position an offset of {-1, 0, 1} x {-1, 0, 1} other than
\* (0, 0) reaches around the torus, in the order of the two loops; the 3x3
\* neighbourhood returns the same positions and the centre itself.
Around(x, n) == IF x < 0 THEN x + n ELSE IF x >= n THEN x - n ELSE x
Reached(p, dr, dc) ==
    <<Around(p[1] + dr, config.grid_rows), Around(p[2] + dc, config.grid_cols)>>
C14_Neighbours ==
    pc \notin {"new", "rejected"} =>
        /\ config.grid_rows >= MinGridRows /\ config.grid_cols >= MinGridCols
        /\ \A p \in Positions(config) :
              LET n8 == Neighbors8(config, p[1], p[2])
                  n9 == Neighborhood9(config, p[1], p[2])
              IN  /\ Len(n8) = 8
                  /\ Len(n9) = 9
                  /\ \A i \in 1 .. 8 : n8[i] \in Positions(config)
                  /\ \A i \in 1 .. 9 :
                        n9[i] = Reached(p, ((i - 1) \div 3) - 1, ((i - 1) % 3) - 1)
                  /\ n9[5] = p
                  /\ \A i \in 1 .. 8 : n8[i] = n9[IF i < 5 THEN i ELSE i + 1]

\* on a grid that is not square a cell on the first column has divided
\* into the last column, around the torus
C14_Witness ==
    /\ pc = "commit"
    /\ config.grid_cols > config.grid_rows
    /\ Len(births) = 1
    /\ births[1][2] = config.grid_cols - 1
    /\ \E p \in AliveCells(grid) : p[2] = 0 /\ CellAt(grid, p).divisions = 1

\* the patches a sequence of positions denotes
PatchesOf(seq) == {seq[i] : i \in 1 .. Len(seq)}
Aliased(c, p) ==
    LET n8 == Neighbors8(c, p[1], p[2])
    IN  Cardinality(PatchesOf(n8)) < Len(n8)

\* C15 as stated: on a grid whose rows or cols equals 3, at least two of the
\* 8 neighbour offsets of a position denote the same patch.
C15_AliasingAsStated ==
    /\ pc \notin {"new", "rejected"}
    /\ config.grid_rows = 3 \/ config.grid_cols = 3
    => \A p \in Positions(config) : Aliased(config, p)

\* C15 amended: on every grid that is constructed, a side of 3 included, the
\* 8 neighbour positions of a position are pairwise distinct patches, none of
\* them the position itself; two offsets denote the same patch only when a
\* side is shorter than 3, and such a grid is never constructed.
C15_NoAliasing ==
    /\ pc \notin {"new", "rejected"} =>
          \A p \in Positions(config) :
              LET n8 == PatchesOf(Neighbors8(config, p[1], p[2]))
              IN  Cardinality(n8) = 8 /\ p \notin n8
    /\ config.grid_rows < MinGridRows \/ config.grid_cols < MinGridCols =>
          /\ pc \in {"new", "rejected"}
          /\ \A p \in Positions(config) : Aliased(config, p)

\* on a 3x3 grid the visited cell finds its 8 neighbours empty: they are
\* the 8 other patches of the grid
C15_Witness ==
    /\ pc = "divide"
    /\ config.grid_rows = 3 /\ config.grid_cols = 3
    /\ visit < Patches
    /\ Attempts(Engine, config, RowMajor(config, visit)[1], RowMajor(config, visit)[2])
    /\ PatchesOf(EmptyNeighbors(grid, config, RowMajor(config, visit)[1],
                                RowMajor(config, visit)[2]))
          = DOMAIN grid \ {RowMajor(config, visit)}

\* C16: a cell divides in a tick only if, when the row-major division phase
\* visits it, it is alive, absent from cells_to_die, has divisions <
\* division_limit and ticks_since_division >= division_cooldown, and has an
\* empty neighbour; so a cell divides at most once per tick, a cell created
\* in a tick does not divide in that tick, and two successive divisions of a
\* cell are at least division_cooldown ticks apart.
Divides(p) ==
    /\ HasCell(grid, p) /\ HasCell(grid', p)
    /\ CellAt(grid', p).divisions > CellAt(grid, p).divisions
C16_DivisionEligibility ==
    [][\A p \in DOMAIN grid :
          Divides(p) =>
              /\ pc = "divide"
              /\ p = RowMajor(config, visit)
              /\ CellAt(grid, p).alive
              /\ p \notin DOMAIN cells_to_die
              /\ CellAt(grid, p).divisions < config.division_limit
              /\ CellAt(grid, p).last_division >= config.division_cooldown
              /\ EmptyNeighbors(grid, config, p[1], p[2]) # <<>>
              /\ CellAt(grid', p).divisions = CellAt(grid, p).divisions + 1
              /\ ledger[p].created < current_tick + 1
              /\ ledger[p].divided < current_tick + 1
              /\ ledger[p].divided > 0 =>
                    current_tick + 1 - ledger[p].divided >= config.division_cooldown
              /\ ledger'[p].divided = current_tick + 1]_vars

\* a cell that has to wait two ticks between divisions has divided a second
\* time, two ticks after its first division
C16_Witness ==
    /\ pc \in {"divide", "commit"}
    /\ config.division_cooldown > MinCooldown
    /\ \E p \in DOMAIN grid :
          /\ IsAlive(grid, p)
          /\ CellAt(grid, p).divisions = 2
          /\ ledger[p].divided = current_tick + 1
    /\ \E q \in DOMAIN grid :
          /\ IsAlive(grid, q)
          /\ ledger[q].created = current_tick + 1

\* C17: overcrowding resolution runs only for the visited cell of the
\* division phase when it is eligible and all of its 8 neighbour patches are
\* occupied; each run adds the cause overcrowding to exactly one patch, which
\* holds an alive cell of the visited cell's 3x3 toroidal neighbourhood that
\* is at least as old as every other alive cell there, keeps the causes that
\* patch already had, and changes nothing else.
Pending(m, p) == IF p \in DOMAIN m THEN m[p] ELSE {}
Crowded(p) ==
    /\ pc = "divide"
    /\ Attempts(Engine, config, p[1], p[2])
    /\ CellAt(grid, p).divisions < config.division_limit
    /\ PatchesOf(Neighbors8(config, p[1], p[2])) \subseteq Occupied(grid)
C17_Overcrowding ==
    [][LET p == RowMajor(config, visit)
           region == {q \in PatchesOf(Neighborhood9(config, p[1], p[2])) :
                        IsAlive(grid, q)}
       IN  /\ (\E q \in DOMAIN cells_to_die' :
                  "overcrowding" \in cells_to_die'[q] \ Pending(cells_to_die, q))
              => Crowded(p)
           /\ Crowded(p) =>
                 \E victim \in region :
                     /\ \A q \in region : CellAt(grid, q).age <= CellAt(grid, victim).age
                     /\ DOMAIN cells_to_die' = DOMAIN cells_to_die \cup {victim}
                     /\ cells_to_die'[victim] =
                           Pending(cells_to_die, victim) \cup {"overcrowding"}
                     /\ \A q \in DOMAIN cells_to_die \ {victim} :
                           cells_to_die'[q] = cells_to_die[q]
                     /\ grid' = grid
                     /\ births' = births]_vars

\* after a birth in the same tick, overcrowding has been added to a patch
\* that was already scheduled for its division limit, while a younger cell
\* of the same neighbourhood is spared
C17_Witness ==
    /\ pc \in {"divide", "commit"}
    /\ births # <<>>
    /\ \E p \in DOMAIN cells_to_die :
          {"division_limit", "overcrowding"} \subseteq cells_to_die[p]
    /\ \E q \in AliveCells(grid) : q \notin DOMAIN cells_to_die /\ CellAt(grid, q).age = 0

\* C18: after every completed tick (and after construction) every alive cell
\* has age < age_limit and divisions < division_limit.
C18_SurvivorsWithinLimits ==
    BetweenTicks =>
        \A p \in AliveCells(grid) :
            /\ CellAt(grid, p).age < config.age_limit
            /\ CellAt(grid, p).divisions < config.division_limit

\* a tick has ended in which a cell died, and a survivor is one division
\* short of its limit
C18_Witness ==
    /\ pc = "loop"
    /\ current_tick >= 1
    /\ total_deaths >= 1
    /\ \E p \in AliveCells(grid) :
          /\ CellAt(grid, p).divisions >= 1
          /\ CellAt(grid, p).divisions = config.division_limit - 1

\* C19: after construction and after every completed tick, total_created
\* minus total_deaths equals the number of alive cells on the grid.
C19_Population ==
    BetweenTicks =>
        total_cells_created - total_deaths = Cardinality(AliveCells(grid))

\* after a tick with births and deaths the grid holds several cells, more
\* than were seeded
C19_Witness ==
    /\ pc = "loop"
    /\ total_deaths >= 1
    /\ total_cells_created >= config.initial_population + 2
    /\ Cardinality(AliveCells(grid)) > config.initial_population

\* C20: no cell is committed dead carrying both the cause age and the cause
\* division_limit: no entry of cells_to_die ever holds both, so after every
\* commit deaths_by_age + deaths_by_division_limit <= total_deaths.
C20_AgeOrDivisionLimit ==
    /\ \A p \in DOMAIN cells_to_die :
          ~({"age", "division_limit"} \subseteq cells_to_die[p])
    /\ deaths_by_age + deaths_by_division_limit <= total_deaths

\* a commit is about to kill one cell for its age and another for its
\* division limit, after an earlier tick has already counted deaths
C20_Witness ==
    /\ pc = "commit"
    /\ total_deaths >= 1
    /\ \E p, q \in DOMAIN cells_to_die :
          /\ cells_to_die[p] = {"age"}
          /\ cells_to_die[q] = {"division_limit"}
====
